---- MODULE Spec2Model ----
(***************************************************************************)
(* Orders microservice: the createOrder / getOrder handlers over the       *)
(* orders table, the detached submitters, the event queue and its single   *)
(* worker, and main's shutdown sequence.                                   *)
(*                                                                         *)
(* Timestamps are instants at the resolution at which the store compares   *)
(* them; the store is taken to keep the created_at it is given (a finer    *)
(* resolution of time.Now() than the column's is not represented).         *)
(***************************************************************************)
EXTENDS Integers, Sequences, FiniteSets, TLC

\* ------------------------------------------------------------------ bounds
\* Number of createOrder requests the service receives.
MaxReq == 2
\* Number of distinct instants the clock shows.
MaxTime == 2
\* Number of distinct values uuid.New() can return.
MaxIds == 2
\* Largest capacity of the event queue. main makes the channel with
\* capacity 100; the model explores every capacity in 1..QueueCap.
QueueCap == 2

Reqs == 1..MaxReq
Ids == 1..MaxIds

\* ------------------------------------------------------------- constants
StatusOK == 200
StatusCreated == 201
StatusBadRequest == 400
StatusNotFound == 404
StatusInternalServerError == 500

\* Request bodies: values of CreateOrderJSONRequestBody, or a body that
\* does not bind.
Malformed == [customer_name |-> "?", item |-> "?"]
ValidBodies ==
    { [customer_name |-> "John", item |-> "Book"],
      [customer_name |-> "John", item |-> "Pen"],
      [customer_name |-> "Jane", item |-> "Book"] }
\* Bodies that are well-formed JSON and lack a required field: the field
\* of the bound struct is left empty.
MissingField ==
    { [customer_name |-> "John", item |-> ""],
      [customer_name |-> "", item |-> "Book"] }
Bodies == ValidBodies \cup MissingField \cup {Malformed}

\* Errors a storage call can return besides sql.ErrNoRows.
NoErr == "nil"
UniqueViolation == "pq: duplicate key value violates unique constraint"
StorageErrors == {"db error", "pq: deadlock detected"}

\* The errors that are *pq.Error values: structs with exported fields
\* (Code, Message, Detail, Table, Constraint, ...). The others are made
\* by errors.New and have no exported field.
PqErrors == {UniqueViolation, "pq: deadlock detected"}

\* The JSON that c.JSON writes for the error value in gin.H{"error": err}:
\* the exported fields of the value, "{}" when it has none.
MarshalError(e) == IF e \in PqErrors THEN e ELSE "{}"

NoOrder == [id |-> 0, customer_name |-> "", item |-> "", created_at |-> 0]
NoBody == [customer_name |-> "", item |-> ""]

\* A request that has not arrived.
IdleReq ==
    [pc |-> "idle", body |-> NoBody, createdAt |-> 0, dberr |-> NoErr,
     status |-> 0, order |-> NoOrder, msg |-> "", echo |-> NoErr, sub |-> "none"]

\* No GetOrderById call is being answered.
NoGet == [id |-> 0, dberr |-> NoErr, status |-> 0, order |-> NoOrder]

VARIABLES
    orders,      \* rows of table orders
    now,         \* the host clock
    req,         \* per createOrder request: handler position, inputs, storage error,
                 \* response (status, order, msg, echo of the error), submitter
    getResp,     \* the GetOrderById call being answered
    eventQueue,  \* chan event.OrderCreated
    processed,   \* events the worker has processed, in order
    worker,      \* "Running" | "Stopped"
    mainPc,      \* "serving" | "shutdown" | "cancelled"
    cap,         \* cap(eventQueue), fixed when the channel is made
    enqueued     \* events in the order in which they entered eventQueue

vars == <<orders, now, req, getResp, eventQueue, processed, worker, mainPc, cap, enqueued>>

\* ctx.Done() is closed.
ctxDone == mainPc = "cancelled"

\* ------------------------------------------------------------------ store
OrderIds == {o.id : o \in orders}

\* Variant: the timestamp is compared with < where the query has =.
SelectByContentEarlier(customerName, item, createdAt) ==
    {o \in orders : /\ o.customer_name = customerName
                    /\ o.item = item
                    /\ o.created_at < createdAt}

\* SELECT ... WHERE customer_name=$1 AND item=$2 AND created_at=$3
SelectByContent(customerName, item, createdAt) ==
    {o \in orders : /\ o.customer_name = customerName
                    /\ o.item = item
                    /\ o.created_at = createdAt}

\* Variant: the WHERE clause is missing.
SelectByIdAny(id) == orders

\* SELECT ... WHERE id = $1
SelectById(id) == {o \in orders : o.id = id}

\* Variant: the table has no PRIMARY KEY on id.
InsertErrorNoKey(id, err) == err

\* INSERT INTO orders: id is the primary key.
InsertError(id, err) == IF id \in OrderIds THEN UniqueViolation ELSE err

\* c.ShouldBindJSON(&req): the body decodes into the request struct and
\* the struct's required fields are present.
Bind(body) == body # Malformed /\ body.customer_name # "" /\ body.item # ""

Init ==
    /\ orders = {}
    /\ now = 1
    /\ req = [r \in Reqs |-> IdleReq]
    /\ getResp = NoGet
    /\ eventQueue = <<>>
    /\ processed = <<>>
    /\ worker = "Running"
    /\ mainPc = "serving"
    /\ cap \in 1..QueueCap
    /\ enqueued = <<>>

\* --------------------------------------------------------------- handlers
\* Variant: the return after the bind error is missing; the handler goes on.
CreateOrderBindNoReturn(r, body) ==
    /\ mainPc = "serving"
    /\ req[r].pc = "idle"
    /\ \A q \in Reqs : q < r => req[q].pc # "idle"
    /\ req' = [req EXCEPT ![r] =
            [@ EXCEPT !.pc = "check", !.body = body, !.createdAt = now]]
    /\ UNCHANGED <<orders, now, getResp, eventQueue, processed, worker, mainPc, cap, enqueued>>

\* CreateOrder up to the clock read: bind the body, createdAt := time.Now().
CreateOrderBind(r, body) ==
    /\ mainPc = "serving"
    /\ req[r].pc = "idle"
    /\ \A q \in Reqs : q < r => req[q].pc # "idle"
    /\ IF Bind(body)
       THEN req' = [req EXCEPT ![r] =
                [@ EXCEPT !.pc = "check", !.body = body, !.createdAt = now]]
       ELSE req' = [req EXCEPT ![r] =
                [@ EXCEPT !.pc = "done", !.body = body, !.status = StatusBadRequest,
                          !.msg = "Invalid input"]]
    /\ UNCHANGED <<orders, now, getResp, eventQueue, processed, worker, mainPc, cap, enqueued>>

\* Variant: on a match the response is built from the request, not from the
\* scanned row.
CreateOrderCheckEcho(r, err) ==
    /\ req[r].pc = "check"
    /\ LET found == SelectByContent(req[r].body.customer_name, req[r].body.item,
                                    req[r].createdAt)
       IN  IF err # NoErr
           THEN req' = [req EXCEPT ![r] =
                    [@ EXCEPT !.pc = "done", !.dberr = err,
                              !.status = StatusInternalServerError,
                              !.msg = "Internal server error"]]
           ELSE IF found # {}
           THEN req' = [req EXCEPT ![r] =
                    [@ EXCEPT !.pc = "done", !.status = StatusOK,
                              !.order = [id |-> 0,
                                         customer_name |-> req[r].body.customer_name,
                                         item |-> req[r].body.item,
                                         created_at |-> req[r].createdAt]]]
           ELSE req' = [req EXCEPT ![r] = [@ EXCEPT !.pc = "insert"]]
    /\ UNCHANGED <<orders, now, getResp, eventQueue, processed, worker, mainPc, cap, enqueued>>

\* Variant: an event is submitted for a duplicate too.
CreateOrderCheckNotify(r, err) ==
    /\ req[r].pc = "check"
    /\ LET found == SelectByContent(req[r].body.customer_name, req[r].body.item,
                                    req[r].createdAt)
       IN  IF err # NoErr
           THEN req' = [req EXCEPT ![r] =
                    [@ EXCEPT !.pc = "done", !.dberr = err,
                              !.status = StatusInternalServerError,
                              !.msg = "Internal server error"]]
           ELSE IF found # {}
           THEN \E row \in found :
                    req' = [req EXCEPT ![r] =
                        [@ EXCEPT !.pc = "done", !.status = StatusOK, !.order = row,
                                  !.sub = "pending"]]
           ELSE req' = [req EXCEPT ![r] = [@ EXCEPT !.pc = "insert"]]
    /\ UNCHANGED <<orders, now, getResp, eventQueue, processed, worker, mainPc, cap, enqueued>>

\* CreateOrder's duplicate check: the SELECT and the three ways it ends.
CreateOrderCheck(r, err) ==
    /\ req[r].pc = "check"
    /\ LET found == SelectByContent(req[r].body.customer_name, req[r].body.item,
                                    req[r].createdAt)
       IN  IF err # NoErr
           THEN req' = [req EXCEPT ![r] =
                    [@ EXCEPT !.pc = "done", !.dberr = err,
                              !.status = StatusInternalServerError,
                              !.msg = "Internal server error"]]
           ELSE IF found # {}
           THEN \E row \in found :
                    req' = [req EXCEPT ![r] =
                        [@ EXCEPT !.pc = "done", !.status = StatusOK, !.order = row]]
           ELSE req' = [req EXCEPT ![r] = [@ EXCEPT !.pc = "insert"]]
    /\ UNCHANGED <<orders, now, getResp, eventQueue, processed, worker, mainPc, cap, enqueued>>

\* Variant: the submitter is started before the INSERT's error is looked at.
CreateOrderInsertEarlyEvent(r, id, err) ==
    /\ req[r].pc = "insert"
    /\ LET row == [id |-> id, customer_name |-> req[r].body.customer_name,
                   item |-> req[r].body.item, created_at |-> req[r].createdAt]
           e == InsertError(id, err)
       IN  IF e # NoErr
           THEN /\ req' = [req EXCEPT ![r] =
                        [@ EXCEPT !.pc = "done", !.dberr = e, !.echo = MarshalError(e),
                                  !.msg = "Failed to create order",
                                  !.status = StatusInternalServerError,
                                  !.order = row, !.sub = "pending"]]
                /\ UNCHANGED orders
           ELSE /\ orders' = orders \cup {row}
                /\ req' = [req EXCEPT ![r] =
                        [@ EXCEPT !.pc = "done", !.status = StatusCreated,
                                  !.order = row, !.sub = "pending"]]
    /\ UNCHANGED <<now, getResp, eventQueue, processed, worker, mainPc, cap, enqueued>>

\* Variant: the row is stored with the time of the INSERT (the column's
\* DEFAULT now()), the response carries createdAt.
CreateOrderInsertNewClock(r, id, err) ==
    /\ req[r].pc = "insert"
    /\ LET row == [id |-> id, customer_name |-> req[r].body.customer_name,
                   item |-> req[r].body.item, created_at |-> req[r].createdAt]
           e == InsertError(id, err)
       IN  IF e # NoErr
           THEN /\ req' = [req EXCEPT ![r] =
                        [@ EXCEPT !.pc = "done", !.dberr = e, !.echo = MarshalError(e),
                                  !.msg = "Failed to create order",
                                  !.status = StatusInternalServerError]]
                /\ UNCHANGED orders
           ELSE /\ orders' = orders \cup {[row EXCEPT !.created_at = now]}
                /\ req' = [req EXCEPT ![r] =
                        [@ EXCEPT !.pc = "done", !.status = StatusCreated,
                                  !.order = row, !.sub = "pending"]]
    /\ UNCHANGED <<now, getResp, eventQueue, processed, worker, mainPc, cap, enqueued>>

\* Variant: the event is sent on the handler's own flow, before the response.
CreateOrderInsertSendInline(r, id, err) ==
    /\ req[r].pc = "insert"
    /\ LET row == [id |-> id, customer_name |-> req[r].body.customer_name,
                   item |-> req[r].body.item, created_at |-> req[r].createdAt]
           e == InsertError(id, err)
       IN  IF e # NoErr
           THEN /\ req' = [req EXCEPT ![r] =
                        [@ EXCEPT !.pc = "done", !.dberr = e, !.echo = MarshalError(e),
                                  !.msg = "Failed to create order",
                                  !.status = StatusInternalServerError]]
                /\ UNCHANGED <<orders, eventQueue, enqueued>>
           ELSE /\ Len(eventQueue) < cap
                /\ orders' = orders \cup {row}
                /\ eventQueue' = Append(eventQueue, row)
                /\ enqueued' = Append(enqueued, row)
                /\ req' = [req EXCEPT ![r] =
                        [@ EXCEPT !.pc = "done", !.status = StatusCreated,
                                  !.order = row, !.sub = "sent"]]
    /\ UNCHANGED <<now, getResp, processed, worker, mainPc, cap>>

\* Variant: INSERT ... ON CONFLICT (id) DO UPDATE: a stored row is overwritten.
CreateOrderInsertUpsert(r, id, err) ==
    /\ req[r].pc = "insert"
    /\ LET row == [id |-> id, customer_name |-> req[r].body.customer_name,
                   item |-> req[r].body.item, created_at |-> req[r].createdAt]
       IN  IF err # NoErr
           THEN /\ req' = [req EXCEPT ![r] =
                        [@ EXCEPT !.pc = "done", !.dberr = err, !.echo = MarshalError(err),
                                  !.msg = "Failed to create order",
                                  !.status = StatusInternalServerError]]
                /\ UNCHANGED orders
           ELSE /\ orders' = {o \in orders : o.id # id} \cup {row}
                /\ req' = [req EXCEPT ![r] =
                        [@ EXCEPT !.pc = "done", !.status = StatusCreated,
                                  !.order = row, !.sub = "pending"]]
    /\ UNCHANGED <<now, getResp, eventQueue, processed, worker, mainPc, cap, enqueued>>

\* CreateOrder from uuid.New() on: the INSERT, the detached submitter, the response.
CreateOrderInsert(r, id, err) ==
    /\ req[r].pc = "insert"
    /\ LET row == [id |-> id, customer_name |-> req[r].body.customer_name,
                   item |-> req[r].body.item, created_at |-> req[r].createdAt]
           e == InsertError(id, err)
       IN  IF e # NoErr
           THEN /\ req' = [req EXCEPT ![r] =
                        [@ EXCEPT !.pc = "done", !.dberr = e, !.echo = MarshalError(e),
                                  !.msg = "Failed to create order",
                                  !.status = StatusInternalServerError]]
                /\ UNCHANGED orders
           ELSE /\ orders' = orders \cup {row}
                /\ req' = [req EXCEPT ![r] =
                        [@ EXCEPT !.pc = "done", !.status = StatusCreated,
                                  !.order = row, !.sub = "pending"]]
    /\ UNCHANGED <<now, getResp, eventQueue, processed, worker, mainPc, cap, enqueued>>

\* Variant: sql.ErrNoRows is not told apart from the other errors.
GetOrderByIdNoRowsIs500(id, err) ==
    /\ mainPc # "cancelled"
    /\ getResp = NoGet
    /\ LET found == SelectById(id)
       IN  IF err # NoErr \/ found = {}
           THEN getResp' = [id |-> id, dberr |-> err,
                            status |-> StatusInternalServerError, order |-> NoOrder]
           ELSE \E row \in found :
                    getResp' = [id |-> id, dberr |-> NoErr, status |-> StatusOK,
                                order |-> row]
    /\ UNCHANGED <<orders, now, req, eventQueue, processed, worker, mainPc, cap, enqueued>>

\* Variant: an order that is found is announced to the relay again.
GetOrderByIdNotify(id, err) ==
    /\ mainPc # "cancelled"
    /\ getResp = NoGet
    /\ LET found == SelectById(id)
       IN  IF err = NoErr /\ found = {}
           THEN /\ getResp' = [id |-> id, dberr |-> NoErr, status |-> StatusNotFound,
                               order |-> NoOrder]
                /\ UNCHANGED <<eventQueue, enqueued>>
           ELSE IF err # NoErr
           THEN /\ getResp' = [id |-> id, dberr |-> err,
                               status |-> StatusInternalServerError, order |-> NoOrder]
                /\ UNCHANGED <<eventQueue, enqueued>>
           ELSE \E row \in found :
                    /\ getResp' = [id |-> id, dberr |-> NoErr, status |-> StatusOK,
                                   order |-> row]
                    /\ Len(eventQueue) < cap
                    /\ eventQueue' = Append(eventQueue, row)
                    /\ enqueued' = Append(enqueued, row)
    /\ UNCHANGED <<orders, now, req, processed, worker, mainPc, cap>>

\* GetOrderById: one SELECT by id and its three outcomes.
GetOrderById(id, err) ==
    /\ mainPc # "cancelled"
    /\ getResp = NoGet
    /\ LET found == SelectById(id)
       IN  IF err = NoErr /\ found = {}
           THEN getResp' = [id |-> id, dberr |-> NoErr, status |-> StatusNotFound,
                            order |-> NoOrder]
           ELSE IF err # NoErr
           THEN getResp' = [id |-> id, dberr |-> err,
                            status |-> StatusInternalServerError, order |-> NoOrder]
           ELSE \E row \in found :
                    getResp' = [id |-> id, dberr |-> NoErr, status |-> StatusOK,
                                order |-> row]
    /\ UNCHANGED <<orders, now, req, eventQueue, processed, worker, mainPc, cap, enqueued>>

\* GetOrderById returns; the next call can be answered.
GetOrderByIdReturn ==
    /\ getResp # NoGet
    /\ getResp' = NoGet
    /\ UNCHANGED <<orders, now, req, eventQueue, processed, worker, mainPc, cap, enqueued>>

\* ------------------------------------------------------------------ relay
\* Variant: the channel takes a send whatever it already holds.
SubmitUnbounded(r) ==
    /\ req[r].sub = "pending"
    /\ eventQueue' = Append(eventQueue, req[r].order)
    /\ enqueued' = Append(enqueued, req[r].order)
    /\ req' = [req EXCEPT ![r] = [@ EXCEPT !.sub = "sent"]]
    /\ UNCHANGED <<orders, now, getResp, processed, worker, mainPc, cap>>

\* Variant: select { case s.eventQueue <- event: default: }: a send that
\* finds the queue full gives up.
SubmitOrDrop(r) ==
    /\ req[r].sub = "pending"
    /\ IF Len(eventQueue) < cap
       THEN /\ eventQueue' = Append(eventQueue, req[r].order)
            /\ enqueued' = Append(enqueued, req[r].order)
       ELSE UNCHANGED <<eventQueue, enqueued>>
    /\ req' = [req EXCEPT ![r] = [@ EXCEPT !.sub = "sent"]]
    /\ UNCHANGED <<orders, now, getResp, processed, worker, mainPc, cap>>

\* go func() { s.eventQueue <- event.OrderCreated{Order: resp} }()
Submit(r) ==
    /\ req[r].sub = "pending"
    /\ Len(eventQueue) < cap
    /\ eventQueue' = Append(eventQueue, req[r].order)
    /\ enqueued' = Append(enqueued, req[r].order)
    /\ req' = [req EXCEPT ![r] = [@ EXCEPT !.sub = "sent"]]
    /\ UNCHANGED <<orders, now, getResp, processed, worker, mainPc, cap>>

\* Variant: the newest event is taken, not the oldest.
WorkerReceiveLast ==
    /\ worker = "Running"
    /\ eventQueue # <<>>
    /\ processed' = Append(processed, eventQueue[Len(eventQueue)])
    /\ eventQueue' = SubSeq(eventQueue, 1, Len(eventQueue) - 1)
    /\ UNCHANGED <<orders, now, req, getResp, worker, mainPc, cap, enqueued>>

\* Variant: the event is read and stays in the queue.
WorkerReceivePeek ==
    /\ worker = "Running"
    /\ eventQueue # <<>>
    /\ processed' = Append(processed, Head(eventQueue))
    /\ UNCHANGED <<orders, now, req, getResp, eventQueue, worker, mainPc, cap, enqueued>>

\* select case e := <-e.eventQueue
WorkerReceive ==
    /\ worker = "Running"
    /\ eventQueue # <<>>
    /\ processed' = Append(processed, Head(eventQueue))
    /\ eventQueue' = Tail(eventQueue)
    /\ UNCHANGED <<orders, now, req, getResp, worker, mainPc, cap, enqueued>>

\* Variant: break where the loop has return: the select is left, the loop is not.
WorkerStopBreak ==
    /\ worker = "Running"
    /\ ctxDone
    /\ UNCHANGED vars

\* Variant: the loop drains the queue before it returns.
WorkerStopDrain ==
    /\ worker = "Running"
    /\ ctxDone
    /\ worker' = "Stopped"
    /\ processed' = processed \o eventQueue
    /\ eventQueue' = <<>>
    /\ UNCHANGED <<orders, now, req, getResp, mainPc, cap, enqueued>>

\* select case <-ctx.Done()
WorkerStop ==
    /\ worker = "Running"
    /\ ctxDone
    /\ worker' = "Stopped"
    /\ UNCHANGED <<orders, now, req, getResp, eventQueue, processed, mainPc, cap, enqueued>>

\* ------------------------------------------------------------------- main
\* <-stop; httpServer.Shutdown stops accepting requests.
Signal ==
    /\ mainPc = "serving"
    /\ mainPc' = "shutdown"
    /\ UNCHANGED <<orders, now, req, getResp, eventQueue, processed, worker, cap, enqueued>>

\* httpServer.Shutdown has returned (no handler is running); cancel().
Cancel ==
    /\ mainPc = "shutdown"
    /\ \A r \in Reqs : req[r].pc \in {"idle", "done"}
    /\ getResp = NoGet
    /\ mainPc' = "cancelled"
    /\ UNCHANGED <<orders, now, req, getResp, eventQueue, processed, worker, cap, enqueued>>

\* The host clock advances.
Tick ==
    /\ now < MaxTime
    /\ now' = now + 1
    /\ UNCHANGED <<orders, req, getResp, eventQueue, processed, worker, mainPc, cap, enqueued>>

Next ==
    \/ \E r \in Reqs, body \in Bodies : CreateOrderBind(r, body)
    \/ \E r \in Reqs, err \in StorageErrors \cup {NoErr} : CreateOrderCheck(r, err)
    \/ \E r \in Reqs, id \in Ids, err \in StorageErrors \cup {NoErr} :
            CreateOrderInsert(r, id, err)
    \/ \E id \in Ids, err \in StorageErrors \cup {NoErr} : GetOrderById(id, err)
    \/ GetOrderByIdReturn
    \/ \E r \in Reqs : Submit(r)
    \/ WorkerReceive
    \/ WorkerStop
    \/ Signal
    \/ Cancel
    \/ Tick

Spec == Init /\ [][Next]_vars

\* The worker goroutine is scheduled: once ctx.Done() is closed it is chosen.
FairSpec == Spec /\ WF_vars(WorkerStop)

\* The worker goroutine and the detached submitters are scheduled: the
\* worker takes an event that waits in the queue, and a send that can
\* complete again and again does complete (the senders blocked on a
\* channel are served in the order they arrived).
LiveSpec ==
    /\ Spec
    /\ WF_vars(WorkerReceive)
    /\ \A r \in Reqs : SF_vars(Submit(r))

\* ------------------------------------------------------------ vocabulary
\* The rows matching request r's content and createdAt.
Matches(r) ==
    SelectByContent(req[r].body.customer_name, req[r].body.item, req[r].createdAt)

\* This step is request r's duplicate check, and storage answers it.
CheckAnswered(r) ==
    /\ req[r].pc = "check"
    /\ req'[r].pc # "check"
    /\ req'[r].dberr = NoErr

\* This step is request r's INSERT, and storage accepts it.
InsertAccepted(r) ==
    /\ req[r].pc = "insert"
    /\ req'[r].pc = "done"
    /\ req'[r].dberr = NoErr

\* This step is a GetOrderById call that storage answers.
GetAnswered ==
    /\ getResp = NoGet
    /\ getResp' # NoGet
    /\ getResp'.dberr = NoErr

\* The submitters waiting to send.
Pending == {r \in Reqs : req[r].sub = "pending"}

\* The relay and the store are as before the step.
NoEffect ==
    /\ orders' = orders
    /\ eventQueue' = eventQueue
    /\ Pending' = Pending

\* This step is one of request r's handler before its INSERT.
StepBeforeInsert(r) ==
    /\ req[r].pc \in {"idle", "check"}
    /\ req'[r] # req[r]

IsPrefix(s, t) == Len(s) <= Len(t) /\ SubSeq(t, 1, Len(s)) = s

\* ------------------------------------------------------------------ claims
\* C1: two createOrder calls with the same (customerName, item), the only
\* calls made with that pair, that compute the same createdAt: when the
\* second call's duplicate check is answered after the first call's insert
\* has completed, the second response is 'existing' (200) with the id of the
\* first response, and the store holds exactly one row for that content.
C1_RepeatedCreateReturnsSameId ==
    [][\A q, r \in Reqs :
        ( /\ q # r
          /\ req[q].status = StatusCreated
          /\ CheckAnswered(r)
          /\ req[r].body = req[q].body
          /\ req[r].createdAt = req[q].createdAt
          /\ \A p \in Reqs \ {q, r} : req[p].body # req[r].body )
        => /\ req'[r].status = StatusOK
           /\ req'[r].order.id = req[q].order.id
           /\ Cardinality(Matches(r)') = 1 ]_vars

C1_Witness ==
    \E q, r \in Reqs :
        /\ q # r
        /\ req[q].status = StatusCreated
        /\ req[r].status = StatusOK
        /\ req[r].body = req[q].body
        /\ req[r].createdAt = req[q].createdAt
        /\ req[r].order.id = req[q].order.id
        /\ Cardinality(Matches(r)) = 1

\* C2: the store holds at most one row for any (customerName, item,
\* createdAt), under any interleaving of concurrent createOrder requests.
C2_OneRowPerContent ==
    \A o1, o2 \in orders :
        ( /\ o1.customer_name = o2.customer_name
          /\ o1.item = o2.item
          /\ o1.created_at = o2.created_at ) => o1 = o2

\* C3: when the duplicate check finds a stored row matching the request,
\* the outcome is 'existing' (200) and the returned order is one of the
\* matching rows already stored, with that row's id.
C3_ExistingReturnsStoredRow ==
    [][\A r \in Reqs :
        (CheckAnswered(r) /\ Matches(r) # {})
        => /\ req'[r].status = StatusOK
           /\ req'[r].order \in Matches(r)
           /\ req'[r].order.id \in OrderIds ]_vars

C3_Witness ==
    \E r \in Reqs :
        /\ req[r].status = StatusOK
        /\ req[r].order \in orders
        /\ req[r].order.customer_name = req[r].body.customer_name
        /\ req[r].order.item = req[r].body.item
        /\ req[r].order.created_at = req[r].createdAt

\* C4: a createOrder call that ends 'existing' changes nothing: in each of
\* its steps the rows, the queue and the pending submitters stay as they
\* are, and once it has answered the handler is done (no insert follows, no
\* submitter is started) and takes no further step.
C4_ExistingHasNoEffect ==
    [][\A r \in Reqs :
        /\ StepBeforeInsert(r) => NoEffect
        /\ (req[r].status # StatusOK /\ req'[r].status = StatusOK)
            => (req'[r].pc = "done" /\ req'[r].sub = "none")
        /\ req[r].status = StatusOK => req'[r] = req[r] ]_vars

C4_Witness ==
    \E q, r \in Reqs :
        /\ req[r].status = StatusOK
        /\ req[r].sub = "none"
        /\ req[q].status = StatusCreated
        /\ orders = {req[q].order}

\* C5: when a storage call of createOrder fails (the duplicate check with
\* an error other than 'no rows', or the insert), the call ends with 500 in
\* that step, which like the steps before it leaves the rows, the queue and
\* the pending submitters as they are; no submitter is started, and the
\* handler takes no further step (the failed call is not retried).
C5_StorageFailureHasNoEffect ==
    [][\A r \in Reqs :
        /\ (req[r].dberr = NoErr /\ req'[r].dberr # NoErr)
            => /\ req[r].pc \in {"check", "insert"}
               /\ req'[r].status = StatusInternalServerError
               /\ req'[r].pc = "done"
               /\ req'[r].sub = "none"
               /\ NoEffect
        /\ req[r].dberr # NoErr => req'[r] = req[r] ]_vars

C5_Witness ==
    \E q, r \in Reqs :
        /\ req[q].status = StatusInternalServerError
        /\ req[q].dberr \in StorageErrors
        /\ req[q].echo = NoErr
        /\ req[r].status = StatusInternalServerError
        /\ req[r].dberr \in StorageErrors
        /\ req[r].echo # NoErr

C8_GetOfUnknownIdIsNotFound ==
    [][( /\ GetAnswered
         /\ \A r \in Reqs :
                ~(req[r].status = StatusCreated /\ req[r].order.id = getResp'.id) )
       => /\ getResp'.status = StatusNotFound
          /\ getResp'.order = NoOrder ]_vars

C8_Witness ==
    /\ getResp.status = StatusNotFound
    /\ getResp.dberr = NoErr
    /\ orders # {}
    /\ getResp.id \notin OrderIds

\* C9: once the cancellation signal has fired the consumption loop
\* eventually is Stopped (the worker being scheduled), Stopped is terminal,
\* and nothing is dequeued after the loop has stopped.
C9_WorkerStopsForGood ==
    /\ ctxDone ~> (worker = "Stopped")
    /\ [][worker = "Stopped"
            => /\ worker' = "Stopped"
               /\ processed' = processed
               /\ IsPrefix(eventQueue, eventQueue')]_vars

C9_Witness ==
    /\ ctxDone
    /\ worker = "Stopped"
    /\ processed # <<>>

\* C10 as stated: once the cancellation signal has fired the consumer
\* dequeues and processes no further event, so every event in the queue at
\* that moment is never processed.
C10_NoDequeueAfterSignal ==
    [][ctxDone => (processed' = processed /\ IsPrefix(eventQueue, eventQueue'))]_vars

\* C10 amended: the loop exits without draining: the step in which it
\* observes the signal leaves the queue as it is, and from then on no event
\* is dequeued or processed, so every event in the queue when the loop stops
\* is never processed. Between the signal and that step the loop may still
\* dequeue and process events.
C10_NoDrainOnStop ==
    [][/\ (worker = "Running" /\ worker' = "Stopped")
            => (eventQueue' = eventQueue /\ processed' = processed)
       /\ \A i \in 1..Len(eventQueue) :
            worker = "Stopped"
            => /\ Len(eventQueue') >= i
               /\ eventQueue'[i] = eventQueue[i]
               /\ \A j \in 1..Len(processed') : processed'[j] # eventQueue[i] ]_vars

C10_Witness ==
    /\ worker = "Stopped"
    /\ eventQueue # <<>>
    /\ \E r \in Reqs : req[r].sub = "pending"

\* The places at which event e stands in sequence s.
Places(s, e) == {i \in 1..Len(s) : s[i] = e}

\* C11: the relay is FIFO: any two events that both entered the queue and
\* were both processed were processed in the order in which they entered.
C11_ProcessedInOrderOfEntry ==
    \A i, j \in 1..Len(processed) :
        i < j => \A a \in Places(enqueued, processed[i]),
                    b \in Places(enqueued, processed[j]) : a < b

C11_Witness ==
    /\ Len(processed) = 2
    /\ processed = enqueued
    /\ \E q, r \in Reqs : q < r /\ processed = <<req[r].order, req[q].order>>

\* C12: a submitter blocks only while the queue is at capacity and the
\* process is not shutting down, so none stays blocked forever after
\* shutdown: there is no state in which the loop has stopped, the queue is
\* at capacity and a submitter still waits to send (from such a state
\* nothing is dequeued any more, and the send never completes).
C12_NoSubmitterStuckAfterShutdown ==
    ~( /\ worker = "Stopped"
       /\ Len(eventQueue) = cap
       /\ Pending # {} )

\* Request r's INSERT is accepted and the handler answers 'created'.
CreatedStep(r) ==
    \E id \in Ids : CreateOrderInsert(r, id, NoErr) /\ req'[r].status = StatusCreated

\* C13: the request-handling flow never waits on the relay: a handler that
\* is about to insert can reach its 'created' response in every state of
\* the queue, at capacity or not, and a request whose submitter still waits
\* to send has its handler done and its 201 response given.
C13_HandlerNeverWaitsOnRelay ==
    \A r \in Reqs :
        /\ req[r].pc = "insert" => ENABLED CreatedStep(r)
        /\ req[r].sub = "pending"
            => (req[r].pc = "done" /\ req[r].status = StatusCreated)

C13_Witness ==
    \E q, r \in Reqs :
        /\ Len(eventQueue) = cap
        /\ req[q].sub = "sent"
        /\ req[q].order \in {eventQueue[i] : i \in 1..Len(eventQueue)}
        /\ req[r].status = StatusCreated
        /\ req[r].sub = "pending"
        /\ req[r].createdAt > req[q].createdAt

\* C14: the response of a failed creation does not depend on the storage
\* error: two createOrder calls with the same request whose same storage
\* call fails (so that they answer 500 with the same message), and that
\* differ only in the error storage returned, give identical responses.
C14_FailureResponseIndependentOfError ==
    \A q, r \in Reqs :
        ( /\ req[q].status = StatusInternalServerError
          /\ req[r].status = StatusInternalServerError
          /\ req[q].body = req[r].body
          /\ req[q].createdAt = req[r].createdAt
          /\ req[q].msg = req[r].msg )
        => req[q].echo = req[r].echo

\* The body is malformed or lacks a required field.
Invalid(body) == body = Malformed \/ body.customer_name = "" \/ body.item = ""

C16_IdsAreUnique ==
    [][/\ \A o1, o2 \in orders' : o1.id = o2.id => o1 = o2
       /\ \A r \in Reqs : InsertAccepted(r) => req'[r].order.id \notin OrderIds ]_vars

C16_Witness ==
    \E q, r \in Reqs :
        /\ q # r
        /\ req[q].status = StatusCreated
        /\ req[r].status = StatusCreated
        /\ req[q].body = req[r].body
        /\ req[q].createdAt = req[r].createdAt
        /\ req[q].order.id # req[r].order.id
        /\ orders = {req[q].order, req[r].order}

\* C17: getOrder has no side effects in any outcome (200, 404, 500): the
\* stored rows, the relay queue and the pending submitters are the same
\* after the call as before it, and so is every createOrder request.
C17_GetHasNoSideEffects ==
    [][getResp' # getResp =>
        /\ NoEffect
        /\ req' = req
        /\ getResp' # NoGet =>
            getResp'.status \in {StatusOK, StatusNotFound, StatusInternalServerError} ]_vars

C17_Witness ==
    /\ getResp # NoGet
    /\ getResp.status = StatusInternalServerError
    /\ getResp.id \in OrderIds
    /\ eventQueue # <<>>
    /\ Pending # {}

\* The elements of a sequence.
Range(s) == {s[i] : i \in 1..Len(s)}

\* The requests whose event exists: waiting to be sent, or sent.
Submitters == {r \in Reqs : req[r].sub # "none"}

C19_StoreIsAppendOnly ==
    [][/\ orders \subseteq orders'
       /\ orders' # orders =>
            \E r \in Reqs :
                /\ InsertAccepted(r)
                /\ req'[r].order \notin orders
                /\ orders' = orders \cup {req'[r].order}
       /\ \A r \in Reqs :
            req[r].pc = "done" =>
                /\ req'[r].pc = "done"
                /\ req'[r].order = req[r].order
                /\ req'[r].status = req[r].status ]_vars

C19_Witness ==
    /\ Cardinality(orders) = 2
    /\ worker = "Stopped"
    /\ processed # <<>>
    /\ \A r \in Reqs : req[r].status = StatusCreated /\ req[r].order \in orders

\* C20: the relay queue never holds more events than its capacity, which
\* is fixed, for any number of submitters and whether the consumer is
\* running, stalled or stopped; while the queue is full no submitter
\* sends, and the event of a waiting submitter is not in the queue.
C20_QueueWithinCapacity ==
    [][/\ cap' = cap
       /\ cap \in 1..QueueCap
       /\ Len(eventQueue') <= cap
       /\ \A r \in Pending' : req'[r].order \notin Range(eventQueue')
       /\ Len(eventQueue) = cap =>
            \A r \in Reqs : req'[r].sub = "sent" => req[r].sub = "sent" ]_vars

C20_Witness ==
    /\ Len(eventQueue) = cap
    /\ Pending # {}
    /\ worker = "Stopped"
    /\ \A r \in Reqs : req[r].sub # "none"

\* C21: if the cancellation never fires, every order whose INSERT
\* succeeded has its event eventually enqueued and eventually processed:
\* no submitter waits forever and no event stays queued forever.
C21_CreatedIsEventuallyProcessed ==
    []~ctxDone =>
        \A r \in Reqs :
            /\ req[r].status = StatusCreated ~> req[r].order \in Range(enqueued)
            /\ req[r].sub = "pending" ~> req[r].sub = "sent"
            /\ req[r].status = StatusCreated ~> req[r].order \in Range(processed)

C21_Witness ==
    /\ ~ctxDone
    /\ cap = 1
    /\ eventQueue = <<>>
    /\ \A r \in Reqs : req[r].status = StatusCreated /\ req[r].order \in Range(processed)

====
